---- MODULE Spec2Model ----
(***************************************************************************)
(* The scanner of mini-js (src/src/scanner/scanner.c, src/scanner.h):      *)
(* caller-owned Scanner objects, each a cursor (start, current, line) into *)
(* an immutable NUL-terminated source buffer, and scanToken, which returns *)
(* one token per call.  Positions are offsets from the buffer start, so    *)
(* the terminator of a source of length N is at offset N.                  *)
(***************************************************************************)
EXTENDS Integers, Sequences, FiniteSets, TLC

VARIABLES
  charSigned,  \* whether plain `char` is signed in this build
  live,        \* the Scanner objects the caller has allocated
  source,      \* source[i]:  the buffer scanner i is bound to (without its NUL)
  argument,    \* argument[i]: the `source` pointer the last initScanner call received
  scanner,     \* scanner[i]: the fields start, current, line of Scanner i
  tokens,      \* tokens[i]:  the tokens returned to the caller since the last initScanner
  maxRead,     \* maxRead[i]: the highest buffer offset any helper has dereferenced
  prev,        \* prev[i]:    the buffer and the tokens of the session before the last initScanner
  restarts     \* restarts[i]: number of initScanner calls after the first

vars == <<charSigned, live, source, argument, scanner, tokens, maxRead, prev, restarts>>

\* ---- bounds of the model ----
MaxLen == 3        \* longest source drawn exhaustively over the alphabet
MaxRestarts == 1   \* initScanner calls after the first, per scanner
ExtraCalls == 1    \* scanToken calls allowed beyond Len(source)

\* ---- characters ----
\* The printable ASCII characters in code order: 32..95, then 97..126.
Printable ==
    << " ", "!", "\"", "#", "$", "%", "&", "'",
       "(", ")", "*", "+", ",", "-", ".", "/",
       "0", "1", "2", "3", "4", "5", "6", "7",
       "8", "9", ":", ";", "<", "=", ">", "?",
       "@", "A", "B", "C", "D", "E", "F", "G",
       "H", "I", "J", "K", "L", "M", "N", "O",
       "P", "Q", "R", "S", "T", "U", "V", "W",
       "X", "Y", "Z", "[", "\\", "]", "^", "_",
       "a", "b", "c", "d", "e", "f", "g",
       "h", "i", "j", "k", "l", "m", "n", "o",
       "p", "q", "r", "s", "t", "u", "v", "w",
       "x", "y", "z", "{", "|", "}", "~" >>

\* The byte value of a printable character written as a one-character string.
Ord == [ch \in {Printable[k] : k \in 1..Len(Printable)} |->
          LET k == CHOOSE j \in 1..Len(Printable) : Printable[j] = ch
          IN  IF k <= 64 THEN 31 + k ELSE 32 + k]

\* A source text written as a tuple of one-character strings, as bytes.
Bytes(t) == [k \in 1..Len(t) |-> Ord[t[k]]]

NUL == 0
TAB == 9
LF == 10
CR == 13
HighByte == 233    \* a non-ASCII byte (0xE9)

\* A `const char*` argument: NULL, or a pointer to a NUL-terminated buffer.
NULL == [null |-> TRUE, buf |-> << >>]
Ptr(buf) == [null |-> FALSE, buf |-> buf]

Max(a, b) == IF a >= b THEN a ELSE b

\* ---- the C abstract machine under the scanner ----
\* A machine m is one Scanner object together with what its pointers refer to:
\*   m.src     the bytes of the bound buffer; the NUL terminator is at offset Len(m.src)
\*   m.signed  the signedness of plain char
\*   m.start, m.current, m.line   the fields of the Scanner struct
\*   m.hi      the highest offset dereferenced so far (-1: none)
\*   m.mono    whether every store to current so far has kept or raised it and
\*             every store to start has stored the value of current

\* The value of type char that a byte has.
AsChar(signed, b) == IF signed /\ b >= 128 THEN b - 256 ELSE b

\* *(buffer + p).  The offsets 0..Len(src) are the string and its terminator.
\* An offset outside them is outside the object; whether any is ever
\* dereferenced is recorded in m.hi by Touch.
CharAt(m, p) ==
    IF p >= 0 /\ p < Len(m.src) THEN AsChar(m.signed, m.src[p + 1]) ELSE NUL

\* Records that offset p has been dereferenced.
Touch(m, p) == [m EXCEPT !.hi = Max(@, p)]

\* (unsigned)x for an int x, as the two 16-bit halves <<high, low>> of the
\* 32-bit result.
ToUnsigned(x) == << (x \div 65536) % 65536, x % 65536 >>

\* u < n for an unsigned u and a constant 0 <= n < 65536.
ULess(u, n) == u[1] = 0 /\ u[2] < n

\* c | 32 for an int c in two's complement.
Or32(c) == IF (c \div 32) % 2 = 0 THEN c + 32 ELSE c

\* scanner->current = v
SetCurrent(m, v) == [m EXCEPT !.current = v, !.mono = @ /\ v >= m.current]

\* scanner->start = v
SetStart(m, v) == [m EXCEPT !.start = v, !.mono = @ /\ v = m.current]

isAtEnd(m) == CharAt(m, m.current) = NUL

\* advance: increments current, then reads current[-1].
advance(m) == Touch(SetCurrent(m, m.current + 1), m.current)

\* The character advance returns.
advanced(m) == CharAt(m, m.current - 1)

peek(m) == IF isAtEnd(m) THEN NUL ELSE CharAt(m, m.current)

\* The dereferences peek performs.
peekReads(m) == Touch(m, m.current)

peekNext(m) == IF isAtEnd(m) THEN NUL ELSE CharAt(m, m.current + 1)

\* The dereferences peekNext performs.
peekNextReads(m) ==
    IF isAtEnd(m) THEN Touch(m, m.current)
    ELSE Touch(Touch(m, m.current), m.current + 1)

\* match that does not compare the character with the expected one.
matchesAny(m, expected) == ~isAtEnd(m)

\* The result of match(scanner, expected).
matches(m, expected) == ~isAtEnd(m) /\ CharAt(m, m.current) = expected

\* match that reports the match but leaves current where it is.
matchNoConsume(m, expected) == Touch(m, m.current)

\* match that steps back over the character it was called after when the
\* expected one does not follow.
matchRewind(m, expected) ==
    IF matches(m, expected)
    THEN Touch(SetCurrent(m, m.current + 1), m.current)
    ELSE Touch(SetCurrent(m, m.current - 1), m.current)

\* The effect of match(scanner, expected).
match(m, expected) ==
    IF matches(m, expected)
    THEN Touch(SetCurrent(m, m.current + 1), m.current)
    ELSE Touch(m, m.current)

\* ---- tokens ----
MSG_UNTERMINATED == "Unterminated string."
MSG_UNEXPECTED == "Unexpected character."

\* makeToken that consumes one character when the lexeme would be empty.
makeTokenNonEmpty(m, type) ==
    LET m1 == IF m.current = m.start THEN advance(m) ELSE m
    IN  [m   |-> m1,
         tok |-> [type |-> type, buf |-> "source", start |-> m1.start,
                  length |-> m1.current - m1.start, line |-> m1.line]]

\* A token's start pointer is <<buf, off>>: buf is "source" for a pointer into
\* the bound buffer, and otherwise the static message pointed to.
\* A sub-scanner yields the machine it leaves behind and the token it returns.
makeToken(m, type) ==
    [m   |-> m,
     tok |-> [type |-> type, buf |-> "source", start |-> m.start,
              length |-> m.current - m.start, line |-> m.line]]

\* errorToken that also gives the consumed characters back.
errorTokenRewind(m, message) ==
    [m   |-> SetCurrent(m, m.start),
     tok |-> [type |-> "TOKEN_ERROR", buf |-> message, start |-> 0,
              length |-> Len(message), line |-> m.line]]

\* errorToken that reports the offending lexeme of the source, as makeToken does.
errorTokenInSource(m, message) ==
    [m   |-> m,
     tok |-> [type |-> "TOKEN_ERROR", buf |-> "source", start |-> m.start,
              length |-> m.current - m.start, line |-> m.line]]

errorToken(m, message) ==
    [m   |-> m,
     tok |-> [type |-> "TOKEN_ERROR", buf |-> message, start |-> 0,
              length |-> Len(message), line |-> m.line]]

\* ---- character classes ----
\* isDigit with `<= 10` in place of `< 10`.
isDigitOffByOne(c) == ULess(ToUnsigned(c - Ord["0"]), 11)

isDigit(c) == ULess(ToUnsigned(c - Ord["0"]), 10)

\* isAlpha with the range starting one character early.
isAlphaOffByOne(c) ==
    ULess(ToUnsigned(Or32(c) - (Ord["a"] - 1)), 27) \/ c = Ord["_"]

isAlpha(c) == ULess(ToUnsigned(Or32(c) - Ord["a"]), 26) \/ c = Ord["_"]

isAlphaNumeric(c) == isAlpha(c) \/ isDigit(c)

\* ---- keywords ----
\* The byte at offset p, as memcmp reads it.
ByteAt(m, p) == IF p >= 0 /\ p < Len(m.src) THEN m.src[p + 1] ELSE NUL

\* memcmp(scanner->start + offset, rest, length) == 0
memcmpEq(m, offset, length, rest) ==
    \A k \in 0..(length - 1) : ByteAt(m, m.start + offset + k) = Ord[rest[k + 1]]

\* checkKeyword without the length test: a keyword prefix matches.
checkKeywordPrefix(m, token_length, offset, length, rest, type) ==
    IF memcmpEq(m, offset, length, rest) THEN type ELSE "TOKEN_IDENTIFIER"

checkKeyword(m, token_length, offset, length, rest, type) ==
    IF token_length = offset + length /\ memcmpEq(m, offset, length, rest)
    THEN type
    ELSE "TOKEN_IDENTIFIER"

identifierType(m) ==
    LET len == m.current - m.start
        c0  == CharAt(m, m.start)
        c1  == CharAt(m, m.start + 1)
    IN  CASE c0 = Ord["a"] -> checkKeyword(m, len, 1, 2, <<"n","d">>, "TOKEN_AND")
          [] c0 = Ord["c"] ->
                IF len > 1 /\ c1 = Ord["l"]
                THEN checkKeyword(m, len, 2, 3, <<"a","s","s">>, "TOKEN_CLASS")
                ELSE IF len > 1 /\ c1 = Ord["o"]
                THEN checkKeyword(m, len, 2, 3, <<"n","s","t">>, "TOKEN_CONST")
                ELSE "TOKEN_IDENTIFIER"
          [] c0 = Ord["e"] -> checkKeyword(m, len, 1, 3, <<"l","s","e">>, "TOKEN_ELSE")
          [] c0 = Ord["f"] ->
                IF len > 1 /\ c1 = Ord["a"]
                THEN checkKeyword(m, len, 2, 3, <<"l","s","e">>, "TOKEN_FALSE")
                ELSE IF len > 1 /\ c1 = Ord["o"]
                THEN checkKeyword(m, len, 2, 1, <<"r">>, "TOKEN_FOR")
                ELSE IF len > 1 /\ c1 = Ord["u"]
                THEN checkKeyword(m, len, 2, 1, <<"n">>, "TOKEN_FUN")
                ELSE "TOKEN_IDENTIFIER"
          [] c0 = Ord["i"] -> checkKeyword(m, len, 1, 1, <<"f">>, "TOKEN_IF")
          [] c0 = Ord["l"] -> checkKeyword(m, len, 1, 2, <<"e","t">>, "TOKEN_LET")
          [] c0 = Ord["n"] -> checkKeyword(m, len, 1, 3, <<"u","l","l">>, "TOKEN_NULL")
          [] c0 = Ord["o"] -> checkKeyword(m, len, 1, 1, <<"r">>, "TOKEN_OR")
          [] c0 = Ord["p"] -> checkKeyword(m, len, 1, 4, <<"r","i","n","t">>, "TOKEN_PRINT")
          [] c0 = Ord["r"] -> checkKeyword(m, len, 1, 5, <<"e","t","u","r","n">>, "TOKEN_RETURN")
          [] c0 = Ord["s"] -> checkKeyword(m, len, 1, 4, <<"u","p","e","r">>, "TOKEN_SUPER")
          [] c0 = Ord["t"] ->
                IF len > 1 /\ c1 = Ord["h"]
                THEN checkKeyword(m, len, 2, 2, <<"i","s">>, "TOKEN_THIS")
                ELSE IF len > 1 /\ c1 = Ord["r"]
                THEN checkKeyword(m, len, 2, 2, <<"u","e">>, "TOKEN_TRUE")
                ELSE "TOKEN_IDENTIFIER"
          [] c0 = Ord["v"] -> checkKeyword(m, len, 1, 2, <<"a","r">>, "TOKEN_VAR")
          [] c0 = Ord["w"] -> checkKeyword(m, len, 1, 4, <<"h","i","l","e">>, "TOKEN_WHILE")
          [] OTHER -> "TOKEN_IDENTIFIER"

\* ---- sub-scanners ----
\* The identifier loop that continues over letters and underscores only.
RECURSIVE identifierLoopLetters(_)
identifierLoopLetters(m) ==
    IF isAlpha(peek(m)) THEN identifierLoopLetters(advance(peekReads(m)))
    ELSE peekReads(m)

\* while (isAlphaNumeric(peek(scanner))) advance(scanner);
RECURSIVE identifierLoop(_)
identifierLoop(m) ==
    IF isAlphaNumeric(peek(m)) THEN identifierLoop(advance(peekReads(m)))
    ELSE peekReads(m)

identifier(m) ==
    LET m1 == identifierLoop(m) IN makeToken(m1, identifierType(m1))

\* while (isDigit(peek(scanner))) advance(scanner);
RECURSIVE digitLoop(_)
digitLoop(m) ==
    IF isDigit(peek(m)) THEN digitLoop(advance(peekReads(m)))
    ELSE peekReads(m)

\* number that takes a '.' after the digits whatever follows it.
numberEagerDot(m) ==
    LET m1 == digitLoop(m)
    IN  IF peek(m1) = Ord["."]
        THEN makeToken(digitLoop(advance(peekReads(m1))), "TOKEN_NUMBER")
        ELSE IF peek(m1) = Ord["n"]
             THEN makeToken(advance(m1), "TOKEN_BIGINT")
             ELSE makeToken(m1, "TOKEN_NUMBER")

\* number that tests for the 'n' suffix after the fraction as well
\* (`if` in place of `else if`).
numberSuffixAfterFraction(m) ==
    LET m1 == digitLoop(m)
        m2 == IF peek(m1) = Ord["."] /\ isDigit(peekNext(m1))
              THEN digitLoop(advance(peekNextReads(m1)))
              ELSE IF peek(m1) = Ord["."] THEN peekNextReads(m1) ELSE m1
    IN  IF peek(m2) = Ord["n"]
        THEN makeToken(advance(m2), "TOKEN_BIGINT")
        ELSE makeToken(m2, "TOKEN_NUMBER")

number(m) ==
    LET m1 == digitLoop(m)
    IN  IF peek(m1) = Ord["."] /\ isDigit(peekNext(m1))
        THEN makeToken(digitLoop(advance(peekNextReads(m1))), "TOKEN_NUMBER")
        ELSE LET m2 == IF peek(m1) = Ord["."] THEN peekNextReads(m1) ELSE m1
             IN  IF peek(m2) = Ord["n"]
                 THEN makeToken(advance(m2), "TOKEN_BIGINT")
                 ELSE makeToken(m2, "TOKEN_NUMBER")

\* The string loop without the line increment on '\n'.
RECURSIVE stringLoopNoLine(_)
stringLoopNoLine(m) ==
    IF peek(m) # Ord["\""] /\ ~isAtEnd(m)
    THEN stringLoopNoLine(advance(peekReads(m)))
    ELSE peekReads(m)

\* while (peek(scanner) != '"' && !isAtEnd(scanner)) { ... advance(scanner); }
RECURSIVE stringLoop(_)
stringLoop(m) ==
    IF peek(m) # Ord["\""] /\ ~isAtEnd(m)
    THEN stringLoop(advance(
           IF peek(m) = LF THEN [peekReads(m) EXCEPT !.line = @ + 1]
           ELSE peekReads(m)))
    ELSE peekReads(m)

\* string without the end-of-source test after the loop.
stringNoEndCheck(m) == makeToken(advance(stringLoop(m)), "TOKEN_STRING")

\* string that returns the partial literal at end-of-source.
stringPartial(m) ==
    LET m1 == stringLoop(m)
    IN  IF isAtEnd(m1) THEN makeToken(m1, "TOKEN_STRING")
        ELSE makeToken(advance(m1), "TOKEN_STRING")

\* string whose token covers the text between the quotes only.
stringWithoutQuotes(m) ==
    LET m1 == stringLoop(m)
    IN  IF isAtEnd(m1) THEN errorToken(m1, MSG_UNTERMINATED)
        ELSE LET m2 == advance(m1)
             IN  [m   |-> m2,
                  tok |-> [type |-> "TOKEN_STRING", buf |-> "source",
                           start |-> m2.start + 1,
                           length |-> m2.current - m2.start - 2, line |-> m2.line]]

string(m) ==
    LET m1 == stringLoop(m)
    IN  IF isAtEnd(m1) THEN errorToken(m1, MSG_UNTERMINATED)
        ELSE makeToken(advance(m1), "TOKEN_STRING")

\* ---- scanToken ----
\* The white-space loop without the case for the tab.
RECURSIVE skipWhitespaceNoTab(_)
skipWhitespaceNoTab(m) ==
    LET c == CharAt(m, m.current)
    IN  IF c \in {Ord[" "], CR} THEN skipWhitespaceNoTab(advance(Touch(m, m.current)))
        ELSE IF c = LF
        THEN skipWhitespaceNoTab(advance([Touch(m, m.current) EXCEPT !.line = @ + 1]))
        ELSE Touch(m, m.current)

\* The white-space loop that counts a carriage return as a line break too.
RECURSIVE skipWhitespaceCountCR(_)
skipWhitespaceCountCR(m) ==
    LET c == CharAt(m, m.current)
    IN  IF c \in {Ord[" "], TAB} THEN skipWhitespaceCountCR(advance(Touch(m, m.current)))
        ELSE IF c \in {LF, CR}
        THEN skipWhitespaceCountCR(advance([Touch(m, m.current) EXCEPT !.line = @ + 1]))
        ELSE Touch(m, m.current)

\* The for(;;) loop at scan_next: spaces, tabs, carriage returns and newlines.
RECURSIVE skipWhitespace(_)
skipWhitespace(m) ==
    LET c == CharAt(m, m.current)
    IN  IF c \in {Ord[" "], CR, TAB} THEN skipWhitespace(advance(Touch(m, m.current)))
        ELSE IF c = LF
        THEN skipWhitespace(advance([Touch(m, m.current) EXCEPT !.line = @ + 1]))
        ELSE Touch(m, m.current)

\* The comment loop that also consumes the newline ending the comment.
RECURSIVE skipCommentEatNewline(_)
skipCommentEatNewline(m) ==
    IF peek(m) # LF /\ ~isAtEnd(m) THEN skipCommentEatNewline(advance(peekReads(m)))
    ELSE IF peek(m) = LF THEN advance(peekReads(m))
    ELSE peekReads(m)

\* The comment loop that also stops at a '"'.
RECURSIVE skipCommentToQuote(_)
skipCommentToQuote(m) ==
    IF peek(m) # LF /\ peek(m) # Ord["\""] /\ ~isAtEnd(m)
    THEN skipCommentToQuote(advance(peekReads(m)))
    ELSE peekReads(m)

\* while (peek(scanner) != '\n' && !isAtEnd(scanner)) advance(scanner);
RECURSIVE skipComment(_)
skipComment(m) ==
    IF peek(m) # LF /\ ~isAtEnd(m) THEN skipComment(advance(peekReads(m)))
    ELSE peekReads(m)

\* The operator case with the two kinds of the conditional exchanged.
OneOrTwoSwapped(m, two, one) ==
    makeToken(match(m, Ord["="]), IF matches(m, Ord["="]) THEN one ELSE two)

\* The kinds of the operators that may take a following '='.
OneOrTwo(m, two, one) ==
    makeToken(match(m, Ord["="]), IF matches(m, Ord["="]) THEN two ELSE one)

\* scanToken from the label scan_next on; `goto scan_next` is the recursive use.
RECURSIVE scanToken(_)
scanToken(m) ==
    LET m0 == skipWhitespace(m)
        m1 == Touch(SetStart(m0, m0.current), m0.current)
        m2 == advance(m1)
        c  == advanced(m2)
    IN  IF isAtEnd(m1) THEN makeToken(m1, "TOKEN_EOF")
        ELSE CASE c = Ord["("] -> makeToken(m2, "TOKEN_LEFT_PAREN")
               [] c = Ord[")"] -> makeToken(m2, "TOKEN_RIGHT_PAREN")
               [] c = Ord["{"] -> makeToken(m2, "TOKEN_LEFT_BRACE")
               [] c = Ord["}"] -> makeToken(m2, "TOKEN_RIGHT_BRACE")
               [] c = Ord[";"] -> makeToken(m2, "TOKEN_SEMICOLON")
               [] c = Ord[","] -> makeToken(m2, "TOKEN_COMMA")
               [] c = Ord["."] -> makeToken(m2, "TOKEN_DOT")
               [] c = Ord["-"] -> makeToken(m2, "TOKEN_MINUS")
               [] c = Ord["+"] -> makeToken(m2, "TOKEN_PLUS")
               [] c = Ord["*"] -> makeToken(m2, "TOKEN_STAR")
               [] c = Ord["\""] -> string(m2)
               [] c = Ord["/"] ->
                     IF matches(m2, Ord["/"])
                     THEN scanToken(skipComment(match(m2, Ord["/"])))
                     ELSE makeToken(match(m2, Ord["/"]), "TOKEN_SLASH")
               [] c = Ord["!"] -> OneOrTwo(m2, "TOKEN_BANG_EQUAL", "TOKEN_BANG")
               [] c = Ord["="] -> OneOrTwo(m2, "TOKEN_EQUAL_EQUAL", "TOKEN_EQUAL")
               [] c = Ord["<"] -> OneOrTwo(m2, "TOKEN_LESS_EQUAL", "TOKEN_LESS")
               [] c = Ord[">"] -> OneOrTwo(m2, "TOKEN_GREATER_EQUAL", "TOKEN_GREATER")
               [] OTHER ->
                     IF isDigit(c) THEN number(m2)
                     ELSE IF isAlpha(c) THEN identifier(m2)
                     ELSE errorToken(m2, MSG_UNEXPECTED)

\* ---- the global-state scanner of src/scanner.c ----
\* Its helpers isAtEnd, advance, peek, peekNext, match, makeToken, errorToken,
\* checkKeyword, identifierType and string have the bodies of the ones above
\* with the process-wide `scanner` in place of the parameter; the definitions
\* above model them.  The character classes, the loops that use them and
\* scanToken differ and are modelled here.

\* c >= '0' && c <= '9'
global_isDigit(c) == c >= Ord["0"] /\ c <= Ord["9"]

\* (c >= 'a' && c <= 'z') || (c >= 'A' && c <= 'Z') || c == '_'
global_isAlpha(c) ==
    \/ (c >= Ord["a"] /\ c <= Ord["z"])
    \/ (c >= Ord["A"] /\ c <= Ord["Z"])
    \/ c = Ord["_"]

global_isAlphaNumeric(c) == global_isAlpha(c) \/ global_isDigit(c)

\* while (isAlphaNumeric(peek())) advance();
RECURSIVE global_identifierLoop(_)
global_identifierLoop(m) ==
    IF global_isAlphaNumeric(peek(m)) THEN global_identifierLoop(advance(peekReads(m)))
    ELSE peekReads(m)

global_identifier(m) ==
    LET m1 == global_identifierLoop(m) IN makeToken(m1, identifierType(m1))

\* while (isDigit(peek())) advance();
RECURSIVE global_digitLoop(_)
global_digitLoop(m) ==
    IF global_isDigit(peek(m)) THEN global_digitLoop(advance(peekReads(m)))
    ELSE peekReads(m)

global_number(m) ==
    LET m1 == global_digitLoop(m)
    IN  IF peek(m1) = Ord["."] /\ global_isDigit(peekNext(m1))
        THEN makeToken(global_digitLoop(advance(peekNextReads(m1))), "TOKEN_NUMBER")
        ELSE LET m2 == IF peek(m1) = Ord["."] THEN peekNextReads(m1) ELSE m1
             IN  IF peek(m2) = Ord["n"]
                 THEN makeToken(advance(m2), "TOKEN_BIGINT")
                 ELSE makeToken(m2, "TOKEN_NUMBER")

\* scanToken from the label start_scanning on; `goto start_scanning` after a
\* comment is the recursive use, which does not pass through the white-space
\* loop again.
RECURSIVE global_startScanning(_)
global_startScanning(m) ==
    LET m1 == Touch(SetStart(m, m.current), m.current)
        m2 == advance(m1)
        c  == advanced(m2)
    IN  IF isAtEnd(m1) THEN makeToken(m1, "TOKEN_EOF")
        ELSE CASE c = Ord["("] -> makeToken(m2, "TOKEN_LEFT_PAREN")
               [] c = Ord[")"] -> makeToken(m2, "TOKEN_RIGHT_PAREN")
               [] c = Ord["{"] -> makeToken(m2, "TOKEN_LEFT_BRACE")
               [] c = Ord["}"] -> makeToken(m2, "TOKEN_RIGHT_BRACE")
               [] c = Ord[";"] -> makeToken(m2, "TOKEN_SEMICOLON")
               [] c = Ord[","] -> makeToken(m2, "TOKEN_COMMA")
               [] c = Ord["."] -> makeToken(m2, "TOKEN_DOT")
               [] c = Ord["-"] -> makeToken(m2, "TOKEN_MINUS")
               [] c = Ord["+"] -> makeToken(m2, "TOKEN_PLUS")
               [] c = Ord["*"] -> makeToken(m2, "TOKEN_STAR")
               [] c = Ord["\""] -> string(m2)
               [] c = Ord["/"] ->
                     IF matches(m2, Ord["/"])
                     THEN global_startScanning(skipComment(match(m2, Ord["/"])))
                     ELSE makeToken(match(m2, Ord["/"]), "TOKEN_SLASH")
               [] c = Ord["!"] -> OneOrTwo(m2, "TOKEN_BANG_EQUAL", "TOKEN_BANG")
               [] c = Ord["="] -> OneOrTwo(m2, "TOKEN_EQUAL_EQUAL", "TOKEN_EQUAL")
               [] c = Ord["<"] -> OneOrTwo(m2, "TOKEN_LESS_EQUAL", "TOKEN_LESS")
               [] c = Ord[">"] -> OneOrTwo(m2, "TOKEN_GREATER_EQUAL", "TOKEN_GREATER")
               [] OTHER ->
                     IF global_isDigit(c) THEN global_number(m2)
                     ELSE IF global_isAlpha(c) THEN global_identifier(m2)
                     ELSE errorToken(m2, MSG_UNEXPECTED)

\* Token scanToken(): the white-space loop, then start_scanning.
global_scanToken(m) == global_startScanning(skipWhitespace(m))

\* void initScanner(const char* source): no test for NULL.
global_initScanner(s, src) == [s EXCEPT !.start = 0, !.current = 0, !.line = 1]

\* ---- initScanner ----
\* initScanner without the NULL guard: the scanner is bound to address 0 and
\* reads whatever byte the platform keeps there.
BoundUnguarded(src) == IF src.null THEN <<HighByte>> ELSE src.buf

\* The buffer initScanner binds: a NULL source is replaced by "".
Bound(src) == IF src.null THEN << >> ELSE src.buf

\* initScanner that numbers the lines from 0.
initScannerLineZero(s, src) == [s EXCEPT !.start = 0, !.current = 0, !.line = 0]

\* initScanner that leaves the line counter as it is.
initScannerKeepLine(s, src) == [s EXCEPT !.start = 0, !.current = 0]

\* initScanner on the Scanner struct s: start and current point to the first
\* byte of the bound buffer, line is 1.
initScanner(s, src) == [s EXCEPT !.start = 0, !.current = 0, !.line = 1]

\* A Scanner object before initScanner: initScanner overwrites every field
\* and reads none, so these values are never observed.
Uninitialized == [start |-> 0, current |-> 0, line |-> 0]

\* ---- the sources the model scans ----
\* Every byte string of length at most n over the set A.
Strings(A, n) == UNION {[1..k -> A] : k \in 0..n}

\* The characters of the exhaustive part: blank, newline, slash, quote,
\* a letter, a digit, an unexpected character and a non-ASCII byte.
CoreAlphabet == {Ord[" "], LF, Ord["/"], Ord["\""], Ord["a"], Ord["1"], Ord["@"]}

\* Sources of the repository's tests and drivers, and of the scenarios of
\* its documentation.
Examples ==
    { Bytes(<<"v","a","r">>) \o <<LF>> \o Bytes(<<"x"," ","="," ","1",";">>),
      Bytes(<<"(",")","{","}",";",",">>),
      Bytes(<<"!"," ","!","=">>),
      Bytes(<<"\"","o","k","\"">>),
      Bytes(<<"1","2","3"," ","4","5",".","6","7">>),
      Bytes(<<"4","2","n">>),
      Bytes(<<"1",".">>),
      Bytes(<<"1",".","2",".","3">>),
      Bytes(<<"\"","u","n">>),
      Bytes(<<"/","/"," ","c"," ">>) \o <<LF>> \o Bytes(<<" ","v","a","r">>),
      Bytes(<<"\"","a">>) \o <<LF>> \o Bytes(<<"b","\""," ","x">>),
      Bytes(<<"f","o","r","e","s","t"," ","f","o","r">>),
      <<TAB, CR, HighByte, Ord["_"], Ord["<"], Ord["="], Ord[">"], Ord["-"]>>,
      Bytes(<<"a","+","b","*","c","/","d",".","e">>),
      Bytes(<<"/","/"," ","c">>) \o <<LF>> \o Bytes(<<"\"","a">>) \o <<LF>>
         \o Bytes(<<"b","\"">>) \o <<CR, LF>> \o Bytes(<<" ","x">>),
      Bytes(<<"a"," ","/","/","c">>) \o <<LF>> \o Bytes(<<"@"," ","\"","b","\""," ","\"">>) }

CoreSources == Strings(CoreAlphabet, MaxLen) \cup Examples

\* ---- the state machine ----
\* The machine of Scanner i.
Machine(i) ==
    [src |-> source[i], signed |-> charSigned, start |-> scanner[i].start,
     current |-> scanner[i].current, line |-> scanner[i].line, hi |-> maxRead[i],
     mono |-> TRUE]

\* The state after each Scanner in I has been constructed by
\* initScanner(&scanner, arg) on a source drawn from S, or on NULL.
InitWith(I, S) ==
    /\ charSigned \in BOOLEAN
    /\ live = I
    /\ \E arg \in [I -> {Ptr(b) : b \in S} \cup {NULL}] :
          /\ argument = arg
          /\ source = [i \in I |-> Bound(arg[i])]
          /\ scanner = [i \in I |-> initScanner(Uninitialized, arg[i])]
    /\ tokens = [i \in I |-> << >>]
    /\ maxRead = [i \in I |-> -1]
    /\ prev = [i \in I |-> [bound |-> FALSE, src |-> << >>, toks |-> << >>]]
    /\ restarts = [i \in I |-> 0]

Init == InitWith({1}, CoreSources)

\* scanToken on a single process-wide scanner, as in src/scanner.c: the call
\* for Scanner i moves the one cursor every caller shares.
ScanTokenGlobal(i) ==
    /\ Len(tokens[i]) < Len(source[i]) + ExtraCalls
    /\ LET r == scanToken(Machine(i))
       IN  /\ scanner' = [j \in live |->
                 [start |-> r.m.start, current |-> r.m.current, line |-> r.m.line]]
           /\ tokens' = [tokens EXCEPT ![i] = Append(@, r.tok)]
           /\ maxRead' = [maxRead EXCEPT ![i] = r.m.hi]
    /\ UNCHANGED <<charSigned, live, source, argument, prev, restarts>>

\* scanToken that terminates the lexeme in place: it stores a NUL over the
\* character after the lexeme, as strtok does.
ScanTokenInPlace(i) ==
    /\ Len(tokens[i]) < Len(source[i]) + ExtraCalls
    /\ LET r == scanToken(Machine(i))
       IN  /\ scanner' = [scanner EXCEPT ![i] =
                 [start |-> r.m.start, current |-> r.m.current, line |-> r.m.line]]
           /\ tokens' = [tokens EXCEPT ![i] = Append(@, r.tok)]
           /\ maxRead' = [maxRead EXCEPT ![i] = r.m.hi]
           /\ source' = [source EXCEPT ![i] =
                 IF r.m.current < Len(@) THEN [@ EXCEPT ![r.m.current + 1] = NUL] ELSE @]
    /\ UNCHANGED <<charSigned, live, argument, prev, restarts>>

\* token = scanToken(&scanner_i)
ScanToken(i) ==
    /\ Len(tokens[i]) < Len(source[i]) + ExtraCalls
    /\ LET r == scanToken(Machine(i))
       IN  /\ scanner' = [scanner EXCEPT ![i] =
                 [start |-> r.m.start, current |-> r.m.current, line |-> r.m.line]]
           /\ tokens' = [tokens EXCEPT ![i] = Append(@, r.tok)]
           /\ maxRead' = [maxRead EXCEPT ![i] = r.m.hi]
    /\ UNCHANGED <<charSigned, live, source, argument, prev, restarts>>

\* initScanner(&scanner_i, arg) on a Scanner that is already in use: arg is
\* the buffer it is bound to, or NULL.
InitScanner(i, arg) ==
    /\ restarts[i] < MaxRestarts
    /\ argument' = [argument EXCEPT ![i] = arg]
    /\ source' = [source EXCEPT ![i] = Bound(arg)]
    /\ scanner' = [scanner EXCEPT ![i] = initScanner(@, arg)]
    /\ prev' = [prev EXCEPT ![i] = [bound |-> TRUE, src |-> source[i], toks |-> tokens[i]]]
    /\ tokens' = [tokens EXCEPT ![i] = << >>]
    /\ maxRead' = [maxRead EXCEPT ![i] = -1]
    /\ restarts' = [restarts EXCEPT ![i] = @ + 1]
    /\ UNCHANGED <<charSigned, live>>

Next ==
    \/ \E i \in live : ScanToken(i)
    \/ \E i \in live : \E arg \in {Ptr(source[i]), NULL} : InitScanner(i, arg)

Spec == Init /\ [][Next]_vars

\* ---- further specifications: the same machine on other sources ----
\* Two Scanner objects on independent buffers.
TwoSources ==
    Strings({LF, Ord["\""]}, MaxLen - 2)
      \cup { Bytes(<<"a"," ","1">>), Bytes(<<"/","/","a">>) \o <<LF>> \o Bytes(<<"@">>) }

InitTwo == InitWith({1, 2}, TwoSources)

SpecTwo == InitTwo /\ [][Next]_vars

\* Every byte value at the dispatch position: alone, and after a letter.
ByteSources ==
    {<<b>> : b \in 1..255} \cup {<<Ord["a"], b>> : b \in 128..255}

InitByte == InitWith({1}, ByteSources)

SpecByte == InitByte /\ [][Next]_vars

\* Punctuation: each single-character token and the slash, followed by every
\* short text over a slash, an '=', a letter, a digit and a blank; and the
\* source of test_punctuation.
PunctuationBytes ==
    {Ord[ch] : ch \in {"(", ")", "{", "}", ",", ".", "-", "+", ";", "*", "/"}}

PunctuationSources ==
    {<<p>> \o t : p \in PunctuationBytes,
                  t \in Strings({Ord["/"], Ord["="], Ord["a"], Ord["1"], Ord[" "]}, MaxLen - 1)}
      \cup { Bytes(<<"(",")","{","}",";",",">>),
             Bytes(<<" ","+"," ","/","/","-">>) \o <<LF>> \o Bytes(<<"*","/","."," ","/">>) }

InitPunctuation == InitWith({1}, PunctuationSources)

SpecPunctuation == InitPunctuation /\ [][Next]_vars

\* Slashes, quotes and newlines in every order: comments that hold quotes and
\* string literals that hold "//".
LeakSources ==
    Strings({Ord["/"], Ord["\""], LF}, MaxLen + 2)
      \cup { Bytes(<<"\"","/","/","\"","/","/","\"">>),
             Bytes(<<"\"","a","/","/","b","\""," ","/","/","\"","c","\"">>) \o <<LF>>
                \o Bytes(<<"\"","d","\"">>) }

InitLeak == InitWith({1}, LeakSources)

SpecLeak == InitLeak /\ [][Next]_vars

\* String literals with backslashes.
StringSources == Strings({Ord["\""], Ord["\\"], Ord["a"], LF}, MaxLen)

InitString == InitWith({1}, StringSources)

SpecString == InitString /\ [][Next]_vars

\* The operators of one or two characters.
OperatorSources == Strings({Ord["!"], Ord["="], Ord["<"], Ord[">"], Ord[" "]}, MaxLen)

InitOperator == InitWith({1}, OperatorSources)

SpecOperator == InitOperator /\ [][Next]_vars

\* Numeric literals: digits, dots and the big-integer suffix in every order,
\* and the literals of test_numeric_literals and of the driver.
NumberSources ==
    Strings({Ord["1"], Ord["."], Ord["n"]}, MaxLen + 1)
      \cup { Bytes(<<"1","2","3",".","4","5">>), Bytes(<<"1","2","3",".">>),
             Bytes(<<"1",".","2",".","3">>), Bytes(<<"4","2","n">>),
             Bytes(<<"1","2","3"," ","4","5",".","6","7">>),
             Bytes(<<"1","n","1",".","1","n">>), Bytes(<<"9",".","0","n"," ","7","n",".">>) }

InitNumber == InitWith({1}, NumberSources)

SpecNumber == InitNumber /\ [][Next]_vars

\* Identifiers at the boundary of the keyword set.
\* The reserved words and their kinds (src/scanner.h, "4. Keywords").
Keywords ==
    { << <<"a","n","d">>, "TOKEN_AND" >>,
      << <<"c","l","a","s","s">>, "TOKEN_CLASS" >>,
      << <<"c","o","n","s","t">>, "TOKEN_CONST" >>,
      << <<"e","l","s","e">>, "TOKEN_ELSE" >>,
      << <<"f","a","l","s","e">>, "TOKEN_FALSE" >>,
      << <<"f","o","r">>, "TOKEN_FOR" >>,
      << <<"f","u","n">>, "TOKEN_FUN" >>,
      << <<"i","f">>, "TOKEN_IF" >>,
      << <<"l","e","t">>, "TOKEN_LET" >>,
      << <<"n","u","l","l">>, "TOKEN_NULL" >>,
      << <<"o","r">>, "TOKEN_OR" >>,
      << <<"p","r","i","n","t">>, "TOKEN_PRINT" >>,
      << <<"r","e","t","u","r","n">>, "TOKEN_RETURN" >>,
      << <<"s","u","p","e","r">>, "TOKEN_SUPER" >>,
      << <<"t","h","i","s">>, "TOKEN_THIS" >>,
      << <<"t","r","u","e">>, "TOKEN_TRUE" >>,
      << <<"v","a","r">>, "TOKEN_VAR" >>,
      << <<"w","h","i","l","e">>, "TOKEN_WHILE" >> }

KeywordWords == {Bytes(e[1]) : e \in Keywords}

\* Each reserved word; its proper prefixes; the word with one more identifier
\* character; with its first letter in upper case; with any one letter
\* replaced; after a blank; before a non-identifier character; and the
\* identifiers of the tests.
KeywordSources ==
    KeywordWords
      \cup UNION {{SubSeq(w, 1, k) : k \in 1..(Len(w) - 1)} : w \in KeywordWords}
      \cup {w \o <<c>> : w \in KeywordWords,
                         c \in {Ord["e"], Ord["s"], Ord["_"], Ord["1"], Ord["("]}}
      \cup {<<w[1] - 32>> \o Tail(w) : w \in KeywordWords}
      \cup UNION {{[w EXCEPT ![k] = Ord["x"]] : k \in 1..Len(w)} : w \in KeywordWords}
      \cup {<<Ord[" "]>> \o w : w \in KeywordWords}
      \cup { Bytes(<<"f","o","r","e","s","t"," ","f","o","r">>),
             Bytes(<<"v","a","r"," ","v","a","r","i","a","b","l","e">>) }

InitKeyword == InitWith({1}, KeywordSources)

SpecKeyword == InitKeyword /\ [][Next]_vars

\* Comments and white space in alternation.
CommentSources ==
    Strings({Ord["/"], LF, Ord[" "], Ord["a"]}, MaxLen + 1)
      \cup { Bytes(<<"/","/","a">>) \o <<LF>> \o Bytes(<<" ","/","/">>) \o <<LF, LF>>
               \o Bytes(<<"/","/"," ","b">>) \o <<LF>> \o Bytes(<<" ","a">>),
             Bytes(<<"a"," ","/","/","\"">>) \o <<LF, TAB>> \o Bytes(<<"/","/","/">>),
             Bytes(<<"/","/"," ","c"," ">>) \o <<LF>> \o Bytes(<<" ","v","a","r">>) }

InitComment == InitWith({1}, CommentSources)

SpecComment == InitComment /\ [][Next]_vars

\* ---- the program around the global-state scanner (src/scanner.c) ----
\* The one process-wide Scanner is scanner[1]; its callers pass a buffer.
GlobalSources == CommentSources

InitGlobal ==
    /\ InitWith({1}, GlobalSources)
    /\ \A i \in {1} : ~argument[i].null

\* token = scanToken()
GlobalScanToken(i) ==
    /\ Len(tokens[i]) < Len(source[i]) + ExtraCalls
    /\ LET r == global_scanToken(Machine(i))
       IN  /\ scanner' = [scanner EXCEPT ![i] =
                 [start |-> r.m.start, current |-> r.m.current, line |-> r.m.line]]
           /\ tokens' = [tokens EXCEPT ![i] = Append(@, r.tok)]
           /\ maxRead' = [maxRead EXCEPT ![i] = r.m.hi]
    /\ UNCHANGED <<charSigned, live, source, argument, prev, restarts>>

\* initScanner(source) on the global scanner, already in use.
GlobalInitScanner(i, arg) ==
    /\ restarts[i] < MaxRestarts
    /\ ~arg.null
    /\ argument' = [argument EXCEPT ![i] = arg]
    /\ source' = [source EXCEPT ![i] = arg.buf]
    /\ scanner' = [scanner EXCEPT ![i] = global_initScanner(@, arg)]
    /\ prev' = [prev EXCEPT ![i] = [bound |-> TRUE, src |-> source[i], toks |-> tokens[i]]]
    /\ tokens' = [tokens EXCEPT ![i] = << >>]
    /\ maxRead' = [maxRead EXCEPT ![i] = -1]
    /\ restarts' = [restarts EXCEPT ![i] = @ + 1]
    /\ UNCHANGED <<charSigned, live>>

NextGlobal ==
    \/ \E i \in live : GlobalScanToken(i)
    \/ \E i \in live : GlobalInitScanner(i, Ptr(source[i]))

SpecGlobal == InitGlobal /\ [][NextGlobal]_vars

\* Sources surrounded by white space and comments.
\* The white space put before a source.
Leads == { << >>, <<Ord[" "]>>, <<LF, TAB>> }

\* The white space and // comments put after a source.
Trails ==
    { << >>, <<LF>>,
      Bytes(<<" ","/","/","c">>) \o <<CR, LF>>,
      Bytes(<<" ","/","/","\"">>),
      Bytes(<<"/","/","c">>) }

\* The sources that are surrounded.
PadBase ==
    Strings({Ord["a"], Ord["/"], Ord["\""], LF}, MaxLen - 2)
      \cup { Bytes(<<"\"","o","k","\"">>), Bytes(<<"1",".">>), Bytes(<<"a"," ","!","=">>),
             Bytes(<<"\"","a">>), Bytes(<<"a","/">>), Bytes(<<"/","/">>),
             Bytes(<<"a">>) \o <<LF>> \o Bytes(<<"\"">>), Bytes(<<"@","1","n">>) }

PaddedSources == {l \o b \o t : l \in Leads, b \in PadBase, t \in Trails}

InitPadded == InitWith({1}, PaddedSources)

SpecPadded == InitPadded /\ [][Next]_vars

\* Tokens of every kind: the keyword, operator, number, punctuation and
\* string sources together with the sources of the tests.
KindSources ==
    KeywordSources \cup OperatorSources \cup NumberSources \cup PunctuationSources
      \cup StringSources \cup Examples

InitKind == InitWith({1}, KindSources)

SpecKind == InitKind /\ [][Next]_vars

\* ---- notions the properties use ----
Min(a, b) == IF a <= b THEN a ELSE b

\* The step is a scanToken call on Scanner i.
Called(i) == Len(tokens'[i]) = Len(tokens[i]) + 1

\* The token the last scanToken call on Scanner i returned.
LastToken(i) == tokens[i][Len(tokens[i])]

\* The token the step's scanToken call on Scanner i returns.
Returned(i) == tokens'[i][Len(tokens'[i])]

IsError(t, message) == t.type = "TOKEN_ERROR" /\ t.buf = message

\* The buffer offsets of the bytes equal to b.
Occurrences(src, b) == {p \in 0..(Len(src) - 1) : src[p + 1] = b}

\* ---- C1 ----
\* C1: totality.  A scanToken call that returns a token other than TOKEN_EOF
\* (error tokens included) leaves current at least one character further, and
\* among the first N+1 tokens returned after initScanner on a source of length
\* N there is a TOKEN_EOF.
C1_Totality ==
    /\ [](\A i \in live :
            Len(tokens[i]) >= Len(source[i]) + 1 =>
               \E k \in 1..(Len(source[i]) + 1) : tokens[i][k].type = "TOKEN_EOF")
    /\ [][\A i \in live :
            (Called(i) /\ Returned(i).type # "TOKEN_EOF") =>
               scanner'[i].current >= scanner[i].current + 1]_vars

\* A malformed source of N >= 2 characters that takes exactly N+1 calls:
\* N tokens, an error token among them, then TOKEN_EOF.
C1_Witness ==
    \E i \in live :
       /\ Len(source[i]) >= 2
       /\ Len(tokens[i]) = Len(source[i]) + 1
       /\ LastToken(i).type = "TOKEN_EOF"
       /\ \A k \in 1..Len(source[i]) : tokens[i][k].type # "TOKEN_EOF"
       /\ \E k \in 1..Len(source[i]) : tokens[i][k].type = "TOKEN_ERROR"

\* ---- C2 ----
\* C2: cursor bounds.  Between calls, begin <= start <= current <= end, where
\* end is the offset of the terminator, and no helper has dereferenced an
\* offset beyond the terminator.
C2_CursorBounds ==
    \A i \in live :
       /\ 0 <= scanner[i].start
       /\ scanner[i].start <= scanner[i].current
       /\ scanner[i].current <= Len(source[i])
       /\ maxRead[i] <= Len(source[i])

\* A call has run to the end of a non-empty source and read its terminator.
C2_Witness ==
    \E i \in live :
       /\ Len(source[i]) > 0
       /\ Len(tokens[i]) = 1
       /\ scanner[i].current = Len(source[i])
       /\ maxRead[i] = Len(source[i])
       /\ LastToken(i).type # "TOKEN_EOF"

\* The text of the lexeme of a token that points into the source.
Lexeme(src, t) == SubSeq(src, t.start + 1, t.start + t.length)

\* The tokens k successive scanToken calls return from machine m.
RECURSIVE TokensFrom(_, _)
TokensFrom(m, k) ==
    IF k = 0 THEN << >>
    ELSE LET r == scanToken(m) IN <<r.tok>> \o TokensFrom(r.m, k - 1)

\* The first k tokens of a Scanner that scans src with no other Scanner around.
Alone(src, k) ==
    TokensFrom([src |-> src, signed |-> charSigned, start |-> 0, current |-> 0,
                line |-> 1, hi |-> -1, mono |-> TRUE], k)

\* ---- C3 ----
\* C3: every token that points into the source carries as its line the line of
\* the first character of its lexeme, that is 1 plus the number of newlines
\* before the lexeme's start; a string literal spanning several lines is
\* reported on the line of its opening quote.
C3_LineOfFirstCharacter ==
    \A i \in live : \A k \in 1..Len(tokens[i]) :
       LET t == tokens[i][k]
       IN  t.buf = "source" =>
              t.line = 1 + Cardinality({p \in Occurrences(source[i], LF) : p < t.start})

\* ---- C4 ----
\* C4: independent Scanner objects do not interfere.  Under every interleaving
\* each Scanner has returned exactly the tokens it returns when it scans its
\* buffer alone, and a scanToken call on one Scanner leaves the start, current
\* and line of every other Scanner unchanged.
C4_NoInterference ==
    /\ [](\A i \in live : tokens[i] = Alone(source[i], Len(tokens[i])))
    /\ [][\A i \in live : \A j \in live \ {i} :
            Called(j) => scanner'[i] = scanner[i]]_vars

\* Two Scanners on different non-empty buffers, each part-way through its scan.
C4_Witness ==
    /\ live = {1, 2}
    /\ source[1] # source[2]
    /\ \A i \in live :
          /\ Len(tokens[i]) >= 2
          /\ scanner[i].current > 0
          /\ scanner[i].line > 1
    /\ scanner[1] # scanner[2]

\* ---- C5 ----
\* C5: restart.  After initScanner is called again with the same buffer, the
\* tokens of the new scan equal, position by position (kind, lexeme position,
\* length, line), those of the scan before it, however far that one had
\* progressed; and every initScanner call leaves start = current = buffer
\* start and line = 1.
C5_Restart ==
    /\ [](\A i \in live :
            (prev[i].bound /\ prev[i].src = source[i]) =>
               \A k \in 1..Min(Len(tokens[i]), Len(prev[i].toks)) :
                  tokens[i][k] = prev[i].toks[k])
    /\ [][\A i \in live :
            restarts'[i] # restarts[i] =>
               scanner'[i] = [start |-> 0, current |-> 0, line |-> 1]]_vars

\* A scan that had reached line 2 was restarted on the same buffer, and the
\* new scan has again returned at least two tokens.
C5_Witness ==
    \E i \in live :
       /\ prev[i].bound
       /\ prev[i].src = source[i]
       /\ Len(prev[i].toks) >= 2
       /\ Len(tokens[i]) >= 2
       /\ \E k \in 1..Len(prev[i].toks) : prev[i].toks[k].line >= 2

\* ---- C6 ----
\* The bytes scanToken dispatches on: punctuation, operators, the quote,
\* digits, letters and the underscore.
DispatchBytes ==
    {Ord[ch] : ch \in {"(", ")", "{", "}", ",", ".", "-", "+", ";", "*", "/",
                       "\"", "!", "=", "<", ">", "_"}}
      \cup (Ord["0"]..Ord["9"]) \cup (Ord["a"]..Ord["z"]) \cup (Ord["A"]..Ord["Z"])

\* Offset p of src holds a character at which the next lexeme begins: not the
\* terminator, not white space, not the start of a comment.
LexemeStartsAt(src, p) ==
    /\ p < Len(src)
    /\ src[p + 1] \notin {Ord[" "], TAB, CR, LF}
    /\ ~(src[p + 1] = Ord["/"] /\ p + 1 < Len(src) /\ src[p + 2] = Ord["/"])

\* C6: an unexpected character.  A scanToken call whose dispatch position (the
\* start it leaves behind) holds a byte that is not punctuation, an operator, a
\* quote, a digit, a letter or an underscore returns a TOKEN_ERROR with the
\* message "Unexpected character." and leaves current just after that one
\* byte; that error is returned in no other case; and the call after such an
\* error starts its lexeme at or after that position, exactly there when a
\* lexeme begins there.
C6_UnexpectedCharacter ==
    [][\A i \in live :
         Called(i) =>
            LET t == Returned(i)
                d == scanner'[i].start
                unexpected == d < Len(source[i]) /\ source[i][d + 1] \notin DispatchBytes
            IN  /\ unexpected <=> IsError(t, MSG_UNEXPECTED)
                /\ unexpected => scanner'[i].current = d + 1
                /\ (Len(tokens[i]) > 0 /\ IsError(LastToken(i), MSG_UNEXPECTED)) =>
                      /\ d >= scanner[i].current
                      /\ LexemeStartsAt(source[i], scanner[i].current) =>
                            d = scanner[i].current]_vars

\* An "Unexpected character." error was followed by an ordinary token.
C6_Witness ==
    \E i \in live : \E k \in 1..(Len(tokens[i]) - 1) :
       /\ IsError(tokens[i][k], MSG_UNEXPECTED)
       /\ tokens[i][k + 1].type \notin {"TOKEN_ERROR", "TOKEN_EOF"}

\* ---- C7 ----
\* C7: an unterminated string.  A scanToken call that dispatches on a '"' with
\* no '"' after it returns a TOKEN_ERROR with the message "Unterminated
\* string." and leaves current at end-of-source; the token after that error is
\* TOKEN_EOF; and every TOKEN_STRING begins and ends with a '"' (no partial
\* literal is returned as a string).
C7_UnterminatedString ==
    /\ [][\A i \in live :
            Called(i) =>
               LET d == scanner'[i].start
               IN  ( /\ d < Len(source[i])
                     /\ source[i][d + 1] = Ord["\""]
                     /\ \A p \in Occurrences(source[i], Ord["\""]) : p <= d )
                   => /\ IsError(Returned(i), MSG_UNTERMINATED)
                      /\ scanner'[i].current = Len(source[i])]_vars
    /\ [](\A i \in live : \A k \in 1..Len(tokens[i]) :
            LET t == tokens[i][k]
            IN  /\ (IsError(t, MSG_UNTERMINATED) /\ k < Len(tokens[i])) =>
                      tokens[i][k + 1].type = "TOKEN_EOF"
                /\ t.type = "TOKEN_STRING" =>
                      /\ t.length >= 2
                      /\ source[i][t.start + 1] = Ord["\""]
                      /\ source[i][t.start + t.length] = Ord["\""])

\* An opening quote after other text ran to end-of-source: the error token,
\* then TOKEN_EOF.
C7_Witness ==
    \E i \in live : \E k \in 2..(Len(tokens[i]) - 1) :
       /\ IsError(tokens[i][k], MSG_UNTERMINATED)
       /\ tokens[i][k + 1].type = "TOKEN_EOF"
       /\ Len(source[i]) >= 3
       /\ source[i][Len(source[i])] # Ord["\""]

\* ---- C8 ----
\* The number of consecutive backslashes that end just before offset p.
RECURSIVE BackslashesBefore(_, _)
BackslashesBefore(src, p) ==
    IF p > 0 /\ src[p] = Ord["\\"] THEN 1 + BackslashesBefore(src, p - 1) ELSE 0

\* C8: the string sub-scan stops only at an unescaped '"': the closing quote
\* of every TOKEN_STRING is not escaped by a backslash, so a quoted string
\* containing \" is one TOKEN_STRING covering the whole literal.
C8_StopsAtUnescapedQuote ==
    \A i \in live : \A k \in 1..Len(tokens[i]) :
       LET t == tokens[i][k]
       IN  t.type = "TOKEN_STRING" =>
              BackslashesBefore(source[i], t.start + t.length - 1) % 2 = 0

\* ---- C9 ----
KeywordKinds == {e[2] : e \in Keywords}

\* The kind the reserved-word table gives a lexeme.
KindOf(lexeme) ==
    IF lexeme \in KeywordWords
    THEN (CHOOSE e \in Keywords : Bytes(e[1]) = lexeme)[2]
    ELSE "TOKEN_IDENTIFIER"

\* C9: keyword classification is exact.  An identifier lexeme gets a keyword
\* kind if and only if it equals, character for character, one of the 18
\* reserved words, and then that word's kind; a proper prefix, an extension or
\* a case variant of a reserved word is TOKEN_IDENTIFIER.
C9_KeywordExact ==
    \A i \in live : \A k \in 1..Len(tokens[i]) :
       LET t == tokens[i][k]
       IN  t.type \in KeywordKinds \cup {"TOKEN_IDENTIFIER"} =>
              t.type = KindOf(Lexeme(source[i], t))

\* One scan returned an identifier that extends a reserved word and a keyword.
C9_Witness ==
    \E i \in live : \E k1, k2 \in 1..Len(tokens[i]) :
       /\ tokens[i][k1].type = "TOKEN_IDENTIFIER"
       /\ \E w \in KeywordWords :
             /\ Len(w) < tokens[i][k1].length
             /\ SubSeq(Lexeme(source[i], tokens[i][k1]), 1, Len(w)) = w
       /\ tokens[i][k2].type \in KeywordKinds

\* ---- C10 ----
\* The one- and two-character kinds of the operators that may take an '='.
OperatorKinds ==
    { <<Ord["!"], "TOKEN_BANG", "TOKEN_BANG_EQUAL">>,
      <<Ord["="], "TOKEN_EQUAL", "TOKEN_EQUAL_EQUAL">>,
      <<Ord["<"], "TOKEN_LESS", "TOKEN_LESS_EQUAL">>,
      <<Ord[">"], "TOKEN_GREATER", "TOKEN_GREATER_EQUAL">> }

\* C10: two-character operators are greedy.  A token whose lexeme starts with
\* one of ! = < > is the two-character token with a lexeme of 2 characters when
\* the next character is '=', and otherwise the one-character token with a
\* lexeme of 1 character.
C10_OperatorGreedy ==
    \A i \in live : \A k \in 1..Len(tokens[i]) :
       LET t == tokens[i][k]
       IN  \A o \in OperatorKinds :
              (t.buf = "source" /\ t.type # "TOKEN_EOF" /\ source[i][t.start + 1] = o[1]) =>
                 IF t.start + 1 < Len(source[i]) /\ source[i][t.start + 2] = Ord["="]
                 THEN t.type = o[3] /\ t.length = 2
                 ELSE t.type = o[2] /\ t.length = 1

\* A two-character operator, and directly after it a one-character one.
C10_Witness ==
    \E i \in live : \E k \in 1..(Len(tokens[i]) - 1) :
       /\ tokens[i][k].type \in {o[3] : o \in OperatorKinds}
       /\ tokens[i][k + 1].type \in {o[2] : o \in OperatorKinds}
       /\ tokens[i][k + 1].start = tokens[i][k].start + 2

\* ---- C11 ----
\* The white-space characters.
Blanks == {Ord[" "], TAB, CR, LF}

\* The offset of the first newline at or after p, or of the terminator.
RECURSIVE EndOfLine(_, _)
EndOfLine(src, p) ==
    IF p >= Len(src) \/ src[p + 1] = LF THEN p ELSE EndOfLine(src, p + 1)

\* The offset reached from p by passing over white space and // comments, each
\* comment ending before its newline.
RECURSIVE NextLexemeStart(_, _)
NextLexemeStart(src, p) ==
    IF p < Len(src) /\ src[p + 1] \in Blanks THEN NextLexemeStart(src, p + 1)
    ELSE IF p + 1 < Len(src) /\ src[p + 1] = Ord["/"] /\ src[p + 2] = Ord["/"]
    THEN NextLexemeStart(src, EndOfLine(src, p + 2))
    ELSE p

\* The number of newlines at the offsets a..b-1.
NewlinesIn(src, a, b) == Cardinality({p \in Occurrences(src, LF) : a <= p /\ p < b})

\* C11: comments produce no tokens.  A scanToken call passes over every
\* alternation of white space and // comments (a comment runs up to, not
\* through, its newline) and starts its lexeme at the first character after
\* them; the token it returns is the lexeme there, TOKEN_EOF exactly when that
\* is end-of-source; and each newline passed over, whether in white space or
\* ending a comment, has incremented line exactly once.
C11_CommentsSkipped ==
    [][\A i \in live :
         Called(i) =>
            LET t == Returned(i)
                d == scanner'[i].start
            IN  /\ d = NextLexemeStart(source[i], scanner[i].current)
                /\ t.buf = "source" => t.start = d
                /\ t.type = "TOKEN_EOF" <=> d = Len(source[i])
                /\ (d = Len(source[i]) \/ source[i][d + 1] # Ord["\""]) =>
                      t.line = scanner[i].line
                                 + NewlinesIn(source[i], scanner[i].current, d)]_vars

\* The first call passed over two comments and the white space between them
\* and returned the identifier on line 3 or later.
C11_Witness ==
    \E i \in live :
       /\ Len(tokens[i]) = 1
       /\ Len(source[i]) >= 8
       /\ SubSeq(source[i], 1, 2) = Bytes(<<"/","/">>)
       /\ tokens[i][1].type = "TOKEN_IDENTIFIER"
       /\ tokens[i][1].start >= 6
       /\ tokens[i][1].line >= 3

\* ---- C12 ----
\* src is the lead l, then some source, then the trail t.
Surrounds(src, l, t) ==
    /\ Len(l) + Len(t) <= Len(src)
    /\ SubSeq(src, 1, Len(l)) = l
    /\ SubSeq(src, Len(src) - Len(t) + 1, Len(src)) = t

\* The source that src surrounds with l and t.
Middle(src, l, t) == SubSeq(src, Len(l) + 1, Len(src) - Len(t))

\* The kind and the lexeme text of a token: the characters it views in the
\* source, or the message of an error token.
KindAndText(src, t) ==
    [type |-> t.type,
     message |-> IF t.buf = "source" THEN "" ELSE t.buf,
     text |-> IF t.buf = "source" THEN Lexeme(src, t) ELSE << >>]

\* The tokens returned so far for src have the kinds and texts of the tokens
\* of the source it surrounds with l and t.
SameAsMiddle(i, l, t) ==
    LET mid   == Middle(source[i], l, t)
        alone == Alone(mid, Len(tokens[i]))
    IN  \A k \in 1..Len(tokens[i]) :
           KindAndText(source[i], tokens[i][k]) = KindAndText(mid, alone[k])

\* C12 (as claimed): transparency.  For every source s, the scan of s
\* surrounded by leading white space and by trailing white space and //
\* comments returns tokens of the same kinds and lexeme texts as the scan of s
\* alone.
C12_Transparency ==
    \A i \in live : \A l \in Leads : \A t \in Trails :
       Surrounds(source[i], l, t) => SameAsMiddle(i, l, t)

\* The scan of src alone returns no "Unterminated string." error.
NoUnterminatedString(src) ==
    LET alone == Alone(src, Len(src) + 1)
    IN  \A k \in 1..(Len(src) + 1) : ~IsError(alone[k], MSG_UNTERMINATED)

\* C12 (amended): the same, for every source s whose scan returns no
\* "Unterminated string." error, and for a trailing part that is empty or
\* begins with a white-space character.
C12_TransparencyAmended ==
    \A i \in live : \A l \in Leads : \A t \in Trails :
       ( /\ Surrounds(source[i], l, t)
         /\ t = << >> \/ t[1] \in Blanks
         /\ NoUnterminatedString(Middle(source[i], l, t)) )
       => SameAsMiddle(i, l, t)

\* A source of two tokens or more, between leading white space and a trailing
\* comment, has been scanned to its TOKEN_EOF.
C12_Witness ==
    \E i \in live : \E l \in Leads \ {<< >>} : \E t \in Trails :
       /\ Len(t) >= 3
       /\ t[1] \in Blanks
       /\ Surrounds(source[i], l, t)
       /\ NoUnterminatedString(Middle(source[i], l, t))
       /\ Len(tokens[i]) >= 3
       /\ tokens[i][2].type # "TOKEN_EOF"
       /\ LastToken(i).type = "TOKEN_EOF"

\* ---- C13 ----
\* The token the first call returns on an empty buffer.
EmptyEOF == [type |-> "TOKEN_EOF", buf |-> "source", start |-> 0, length |-> 0, line |-> 1]

\* C13: after initScanner(&scanner, NULL) the scanner is bound to an empty
\* buffer: its cursor stays on the terminator of that buffer, no call reads
\* beyond that terminator, and the first scanToken call returns TOKEN_EOF with
\* a zero-length lexeme and line 1 (as does every later call).
C13_AbsentBuffer ==
    \A i \in live :
       argument[i].null =>
          /\ source[i] = << >>
          /\ scanner[i].current = 0
          /\ scanner[i].line = 1
          /\ maxRead[i] <= 0
          /\ \A k \in 1..Len(tokens[i]) : tokens[i][k] = EmptyEOF

\* A scanner that scanned a real buffer is rebound to NULL and called.
C13_Witness ==
    \E i \in live :
       /\ argument[i].null
       /\ prev[i].bound
       /\ Len(prev[i].src) >= 2
       /\ Len(prev[i].toks) >= 2
       /\ Len(tokens[i]) >= 1
       /\ maxRead[i] = 0

\* ---- C14, C15 ----
Digits == 48..57

\* The number of consecutive decimal digits of src from offset p on.
RECURSIVE DigitRun(_, _)
DigitRun(src, p) ==
    IF p < Len(src) /\ src[p + 1] \in Digits THEN 1 + DigitRun(src, p + 1) ELSE 0

\* The byte of src at offset p, or NUL at and beyond its end.
At(src, p) == IF p >= 0 /\ p < Len(src) THEN src[p + 1] ELSE NUL

\* Offset p of src holds a '.' with a digit right after it.
FractionAt(src, p) == At(src, p) = Ord["."] /\ At(src, p + 1) \in Digits

\* The tokens returned so far whose lexeme starts with a digit.
NumericTokens(i) ==
    {k \in 1..Len(tokens[i]) :
        /\ tokens[i][k].buf = "source"
        /\ At(source[i], tokens[i][k].start) \in Digits}

\* C14: a token that starts with a digit covers the maximal digit run; when a
\* '.' and a digit follow the run it is a TOKEN_NUMBER that also covers the
\* '.' and the maximal digit run after it; a '.' that follows a numeric
\* lexeme is left in the source and the next call returns it as TOKEN_DOT.
\* Tokens of kind TOKEN_NUMBER start with a digit.
C14_NumberForms ==
    \A i \in live :
       /\ \A k \in 1..Len(tokens[i]) :
             tokens[i][k].type = "TOKEN_NUMBER" => k \in NumericTokens(i)
       /\ \A k \in NumericTokens(i) :
             LET t == tokens[i][k]
                 p == t.start + DigitRun(source[i], t.start)
                 e == t.start + t.length
             IN  /\ e >= p
                 /\ FractionAt(source[i], p) =>
                       /\ t.type = "TOKEN_NUMBER"
                       /\ e = p + 1 + DigitRun(source[i], p + 1)
                 /\ (At(source[i], p) = Ord["."] /\ ~FractionAt(source[i], p)) =>
                       /\ t.type = "TOKEN_NUMBER"
                       /\ e = p
                 /\ (At(source[i], e) = Ord["."] /\ k < Len(tokens[i])) =>
                       /\ tokens[i][k + 1].type = "TOKEN_DOT"
                       /\ tokens[i][k + 1].start = e
                       /\ tokens[i][k + 1].length = 1

\* "1.2.3" scanned as TOKEN_NUMBER "1.2", TOKEN_DOT and TOKEN_NUMBER "3".
C14_Witness ==
    \E i \in live :
       /\ Len(tokens[i]) >= 3
       /\ Lexeme(source[i], tokens[i][1]) = Bytes(<<"1",".","2">>)
       /\ tokens[i][1].type = "TOKEN_NUMBER"
       /\ tokens[i][2].type = "TOKEN_DOT"
       /\ tokens[i][3].type = "TOKEN_NUMBER"
       /\ tokens[i][3].length = 1

\* C15: a token that starts with a digit, whose digit run has no fractional
\* part and is directly followed by 'n', is a TOKEN_BIGINT of the digits and
\* that one 'n'; with a fractional part it is a TOKEN_NUMBER that ends before
\* an 'n' following the fraction; a TOKEN_BIGINT starts with a digit and its
\* lexeme is digits followed by one 'n', with no '.'.
C15_BigInt ==
    \A i \in live :
       /\ \A k \in 1..Len(tokens[i]) :
             tokens[i][k].type = "TOKEN_BIGINT" =>
                /\ k \in NumericTokens(i)
                /\ \A b \in 1..Len(Lexeme(source[i], tokens[i][k])) :
                      Lexeme(source[i], tokens[i][k])[b] # Ord["."]
       /\ \A k \in NumericTokens(i) :
             LET t == tokens[i][k]
                 p == t.start + DigitRun(source[i], t.start)
                 q == p + 1 + DigitRun(source[i], p + 1)
             IN  /\ (~FractionAt(source[i], p) /\ At(source[i], p) = Ord["n"]) =>
                       /\ t.type = "TOKEN_BIGINT"
                       /\ t.length = p + 1 - t.start
                 /\ (~FractionAt(source[i], p) /\ At(source[i], p) # Ord["n"]) =>
                       /\ t.type = "TOKEN_NUMBER"
                       /\ t.length = p - t.start
                 /\ FractionAt(source[i], p) =>
                       /\ t.type = "TOKEN_NUMBER"
                       /\ t.length = q - t.start

\* "1n1.1n" scanned as TOKEN_BIGINT "1n", TOKEN_NUMBER "1.1" and the
\* identifier n.
C15_Witness ==
    \E i \in live :
       /\ Len(tokens[i]) >= 3
       /\ tokens[i][1].type = "TOKEN_BIGINT"
       /\ tokens[i][1].length = 2
       /\ tokens[i][2].type = "TOKEN_NUMBER"
       /\ tokens[i][2].length = 3
       /\ tokens[i][3].type = "TOKEN_IDENTIFIER"
       /\ tokens[i][3].start = 5
       /\ tokens[i][3].length = 1

\* ---- C16 ----
\* The offset of the first '"' of src at or after offset p, or Len(src).
RECURSIVE FirstQuote(_, _)
FirstQuote(src, p) ==
    IF p >= Len(src) \/ src[p + 1] = Ord["\""] THEN Min(p, Len(src))
    ELSE FirstQuote(src, p + 1)

\* C16: when the lexeme of a call starts at a '"' and a later '"' exists, the
\* call returns one TOKEN_STRING that runs from the opening quote to the first
\* following '"' inclusive (length >= 2), leaves the cursor right after it,
\* and has added one to the line counter for each newline inside the literal
\* (on top of those of the white space and comments skipped before it).
C16_StringLiteral ==
    [][\A i \in live :
         Called(i) =>
            LET src == source[i]
                d == scanner'[i].start
                q == FirstQuote(src, d + 1)
                t == Returned(i)
            IN  (At(src, d) = Ord["\""] /\ q < Len(src)) =>
                   /\ t.type = "TOKEN_STRING"
                   /\ t.buf = "source"
                   /\ t.start = d
                   /\ t.length = q - d + 1
                   /\ t.length >= 2
                   /\ scanner'[i].current = q + 1
                   /\ scanner'[i].line = scanner[i].line
                                          + NewlinesIn(src, scanner[i].current, d)
                                          + NewlinesIn(src, d, q + 1)]_vars

\* A string literal spanning two lines has been returned after white space
\* that held a newline of its own.
C16_Witness ==
    \E i \in live :
       /\ Len(tokens[i]) >= 1
       /\ LastToken(i).type = "TOKEN_STRING"
       /\ LastToken(i).start >= 1
       /\ LastToken(i).length >= 3
       /\ LF \in {Lexeme(source[i], LastToken(i))[b] : b \in 1..LastToken(i).length}
       /\ scanner[i].line >= 3

\* ---- C17 ----
\* C17: every TOKEN_ERROR returned points to the start of one of the two
\* static messages, with length the length of that message, and not into the
\* source buffer; every other token's lexeme [start, start + length) lies
\* inside the bound buffer, start + length never beyond its end.
C17_BackingStorage ==
    \A i \in live : \A k \in 1..Len(tokens[i]) :
       LET t == tokens[i][k]
       IN  IF t.type = "TOKEN_ERROR"
           THEN /\ t.buf \in {MSG_UNTERMINATED, MSG_UNEXPECTED}
                /\ t.buf # "source"
                /\ t.start = 0
                /\ t.length = Len(t.buf)
                /\ t.length \in {20, 21}
           ELSE /\ t.buf = "source"
                /\ 0 <= t.start
                /\ 0 <= t.length
                /\ t.start + t.length <= Len(source[i])

\* One scan has returned both messages, a string lexeme inside the buffer and
\* the end-of-source token at the buffer's terminator.
C17_Witness ==
    \E i \in live :
       /\ \E k \in 1..Len(tokens[i]) : IsError(tokens[i][k], MSG_UNEXPECTED)
       /\ \E k \in 1..Len(tokens[i]) : IsError(tokens[i][k], MSG_UNTERMINATED)
       /\ \E k \in 1..Len(tokens[i]) :
             /\ tokens[i][k].type = "TOKEN_STRING"
             /\ tokens[i][k].start + tokens[i][k].length < Len(source[i])
       /\ LastToken(i).type = "TOKEN_EOF"
       /\ LastToken(i).start = Len(source[i])

\* ---- C18 ----
\* The characters of src at the offsets a..b-1 are white space, // comments
\* (each running to its newline or to the end of the source), characters that
\* start no lexeme, or a '"' with no closing '"' together with everything
\* after it.
RECURSIVE GapOK(_, _, _)
GapOK(src, a, b) ==
    IF a >= b THEN a = b
    ELSE LET c == src[a + 1]
         IN  IF c \in Blanks THEN GapOK(src, a + 1, b)
             ELSE IF c = Ord["/"] /\ At(src, a + 1) = Ord["/"]
             THEN GapOK(src, EndOfLine(src, a + 2), b)
             ELSE IF c \notin DispatchBytes THEN GapOK(src, a + 1, b)
             ELSE /\ c = Ord["\""]
                  /\ FirstQuote(src, a + 1) = Len(src)
                  /\ b = Len(src)

\* The tokens of the scan up to and including its first TOKEN_EOF.
FullScan(i) ==
    {k \in 1..Len(tokens[i]) :
        \A j \in 1..(k - 1) : tokens[i][j].type # "TOKEN_EOF"}

\* The non-error tokens of the scan before token k.
Before(i, k) == {j \in FullScan(i) : j < k /\ tokens[i][j].type # "TOKEN_ERROR"}

\* The largest element of a non-empty set of numbers.
Last(S) == CHOOSE x \in S : \A y \in S : y <= x

\* C18: in a scan up to its first TOKEN_EOF the lexemes of the non-error
\* tokens lie in strictly increasing source order without overlap, and the
\* characters between one lexeme and the next (before the first, and up to the
\* end of the source where TOKEN_EOF is returned) are white space, comments
\* or characters consumed for an error token.
C18_Partition ==
    \A i \in live : \A k \in FullScan(i) :
       LET t == tokens[i][k]
           B == Before(i, k)
           from == IF B = {} THEN 0
                   ELSE tokens[i][Last(B)].start + tokens[i][Last(B)].length
       IN  t.type # "TOKEN_ERROR" =>
              /\ from <= t.start
              /\ B # {} => tokens[i][Last(B)].start < t.start
              /\ GapOK(source[i], from, t.start)
              /\ t.type = "TOKEN_EOF" => t.start = Len(source[i])

\* A full scan with lexemes separated by white space, a comment, an unexpected
\* character and an unterminated string.
C18_Witness ==
    \E i \in live :
       /\ Len(tokens[i]) = 5
       /\ Len(source[i]) = 13
       /\ tokens[i][1].type = "TOKEN_IDENTIFIER"
       /\ IsError(tokens[i][2], MSG_UNEXPECTED)
       /\ tokens[i][3].type = "TOKEN_STRING"
       /\ tokens[i][3].start = 8
       /\ IsError(tokens[i][4], MSG_UNTERMINATED)
       /\ tokens[i][5].type = "TOKEN_EOF"

\* ---- C20 ----
\* C20: in every state reached by initScanner and scanToken calls the line
\* counter is 1 plus the number of '\n' characters of the source before
\* `current`.
C20_LineCounter ==
    \A i \in live :
       scanner[i].line = 1 + NewlinesIn(source[i], 0, scanner[i].current)

\* The cursor has passed a newline after a comment, a newline inside a string
\* literal, a carriage return and a newline in white space.
C20_Witness ==
    \E i \in live :
       /\ scanner[i].line = 4
       /\ scanner[i].current = Len(source[i])
       /\ Occurrences(source[i], CR) # {}
       /\ \E k \in 1..Len(tokens[i]) :
             /\ tokens[i][k].type = "TOKEN_STRING"
             /\ NewlinesIn(source[i], tokens[i][k].start,
                           tokens[i][k].start + tokens[i][k].length) = 1
       /\ NewlinesIn(source[i], 0, 5) = 1
       /\ SubSeq(source[i], 1, 2) = Bytes(<<"/","/">>)

\* ---- C21 ----
\* C21: in the global-state scanner a call passes over every alternation of
\* white space and // comments before it starts its lexeme: the newline that
\* ends a comment is skipped and counted, and is never the character an
\* "Unexpected character." token is returned for.
C21_GlobalCommentRestart ==
    [][\A i \in live :
         Called(i) =>
            LET d == scanner'[i].start
            IN  /\ d = NextLexemeStart(source[i], scanner[i].current)
                /\ IsError(Returned(i), MSG_UNEXPECTED) => At(source[i], d) # LF
                /\ scanner'[i].line >= scanner[i].line
                                         + NewlinesIn(source[i], scanner[i].current, d)]_vars

\* ---- C22 ----
\* C22: within a scan session no scanToken call, and no store made inside it,
\* decreases current, and every store to start stores the value current has
\* at that moment: the call a scanner is about to make performs only such
\* stores, and across each call current has not decreased and start lies
\* between the old and the new current.
C22_CurrentMonotone ==
    /\ [](\A i \in live : scanToken(Machine(i)).m.mono)
    /\ [][\A i \in live :
            Called(i) =>
               /\ scanner'[i].current >= scanner[i].current
               /\ scanner[i].current <= scanner'[i].start
               /\ scanner'[i].start <= scanner'[i].current]_vars

\* A scan whose calls have skipped white space, failed a match after '!' and
\* consumed a two-character lexeme.
C22_Witness ==
    \E i \in live :
       /\ Len(tokens[i]) >= 2
       /\ \E k \in 1..Len(tokens[i]) : tokens[i][k].type = "TOKEN_BANG"
       /\ \E k \in 1..Len(tokens[i]) : tokens[i][k].type = "TOKEN_BANG_EQUAL"
       /\ scanner[i].start > 0
       /\ scanner[i].current > scanner[i].start

\* ---- C23 ----
Letters == (97..122) \cup (65..90) \cup {95}

\* C23: for each of the 256 byte values, as the char value it has in this
\* build, the branchless isDigit is true exactly for '0'..'9' and the
\* branchless isAlpha exactly for 'a'..'z', 'A'..'Z' and '_', and both agree
\* with the comparison forms of src/scanner.c; and a call whose lexeme starts
\* at a non-ASCII byte returns the "Unexpected character." token.
C23_CharacterClasses ==
    /\ [](\A b \in 0..255 :
            LET c == AsChar(charSigned, b)
            IN  /\ isDigit(c) <=> b \in Digits
                /\ isAlpha(c) <=> b \in Letters
                /\ isAlphaNumeric(c) <=> b \in Digits \cup Letters
                /\ isDigit(c) <=> global_isDigit(c)
                /\ isAlpha(c) <=> global_isAlpha(c)
                /\ isAlphaNumeric(c) <=> global_isAlphaNumeric(c))
    /\ [][\A i \in live :
            (Called(i) /\ At(source[i], scanner'[i].start) >= 128) =>
               /\ IsError(Returned(i), MSG_UNEXPECTED)
               /\ scanner'[i].current = scanner'[i].start + 1]_vars

\* In a build with signed char, a byte of negative char value that follows an
\* identifier has been answered with the error token.
C23_Witness ==
    \E i \in live :
       /\ charSigned
       /\ Len(source[i]) = 2
       /\ source[i][2] >= 128
       /\ Len(tokens[i]) = 2
       /\ tokens[i][1].type = "TOKEN_IDENTIFIER"
       /\ tokens[i][1].length = 1
       /\ IsError(tokens[i][2], MSG_UNEXPECTED)

\* ---- C24 ----
\* The kinds of the single-character tokens other than the slash.
PunctuationKinds ==
    { <<Ord["("], "TOKEN_LEFT_PAREN">>, <<Ord[")"], "TOKEN_RIGHT_PAREN">>,
      <<Ord["{"], "TOKEN_LEFT_BRACE">>, <<Ord["}"], "TOKEN_RIGHT_BRACE">>,
      <<Ord[","], "TOKEN_COMMA">>, <<Ord["."], "TOKEN_DOT">>,
      <<Ord["-"], "TOKEN_MINUS">>, <<Ord["+"], "TOKEN_PLUS">>,
      <<Ord[";"], "TOKEN_SEMICOLON">>, <<Ord["*"], "TOKEN_STAR">> }

\* The offset reached from p by passing over white space only.
RECURSIVE BlankEnd(_, _)
BlankEnd(src, p) ==
    IF p < Len(src) /\ src[p + 1] \in Blanks THEN BlankEnd(src, p + 1) ELSE p

\* C24: a call that finds, after the white space, one of ( ) { } , . - + ; *
\* returns the token of that character's kind with a lexeme of exactly that
\* character, whatever follows it; a call that finds a '/' there returns
\* TOKEN_SLASH with a one-character lexeme when the next character is not '/',
\* and no token for that '/' when it is; TOKEN_SLASH is returned in no other
\* case.
C24_SingleCharacter ==
    [][\A i \in live :
         Called(i) =>
            LET src == source[i]
                p == BlankEnd(src, scanner[i].current)
                t == Returned(i)
                One == /\ t.buf = "source"
                       /\ t.start = p
                       /\ t.length = 1
                       /\ scanner'[i].current = p + 1
            IN  /\ \A e \in PunctuationKinds :
                      At(src, p) = e[1] => (t.type = e[2] /\ One)
                /\ (At(src, p) = Ord["/"] /\ At(src, p + 1) # Ord["/"]) =>
                      (t.type = "TOKEN_SLASH" /\ One)
                /\ (At(src, p) = Ord["/"] /\ At(src, p + 1) = Ord["/"]) =>
                      scanner'[i].start >= p + 2
                /\ t.type = "TOKEN_SLASH" =>
                      (At(src, p) = Ord["/"] /\ At(src, p + 1) # Ord["/"])
                /\ t.type \in {e[2] : e \in PunctuationKinds} =>
                      \E e \in PunctuationKinds :
                         e[2] = t.type /\ At(src, t.start) = e[1] /\ t.length = 1]_vars

\* A scan has returned TOKEN_PLUS, passed a comment that holds a '-', and then
\* returned TOKEN_STAR, TOKEN_SLASH before a '.', TOKEN_DOT and TOKEN_SLASH.
C24_Witness ==
    \E i \in live :
       /\ Len(tokens[i]) = 5
       /\ tokens[i][1].type = "TOKEN_PLUS"
       /\ tokens[i][2].type = "TOKEN_STAR"
       /\ tokens[i][3].type = "TOKEN_SLASH"
       /\ tokens[i][4].type = "TOKEN_DOT"
       /\ tokens[i][5].type = "TOKEN_SLASH"
       /\ tokens[i][2].start >= 7

\* ---- C25 ----
\* C25: the lexeme of every identifier or keyword token starts with a letter
\* or underscore, consists of letters, digits and underscores only, and is
\* followed in the source by a character that is none of these (or by the
\* end); so a keyword kind is returned only for a word no identifier
\* character follows.  Nor does the lexeme begin in the middle of a word: the
\* character before it is no letter, unless it is the 'n' that ends a
\* big-integer literal.
C25_MaximalMunch ==
    \A i \in live : \A k \in 1..Len(tokens[i]) :
       LET t == tokens[i][k]
           lexeme == Lexeme(source[i], t)
       IN  t.type \in KeywordKinds \cup {"TOKEN_IDENTIFIER"} =>
              /\ t.buf = "source"
              /\ t.length >= 1
              /\ lexeme[1] \in Letters
              /\ \A b \in 1..t.length : lexeme[b] \in Letters \cup Digits
              /\ At(source[i], t.start + t.length) \notin Letters \cup Digits
              /\ t.start > 0 =>
                    (At(source[i], t.start - 1) \notin Letters
                       \/ tokens[i][k - 1].type = "TOKEN_BIGINT")

\* A reserved word followed by a digit has been returned as one identifier,
\* not as the keyword and a number.
C25_Witness ==
    \E i \in live :
       /\ Len(source[i]) >= 3
       /\ Len(tokens[i]) >= 1
       /\ SubSeq(source[i], 1, Len(source[i]) - 1) \in KeywordWords
       /\ source[i][Len(source[i])] = Ord["1"]
       /\ tokens[i][1].type = "TOKEN_IDENTIFIER"
       /\ tokens[i][1].length = Len(source[i])

\* ---- C26 ----
\* C26: a TOKEN_EOF has a zero-length lexeme at the terminator of the source
\* and carries the line the scanner is on; a call made after TOKEN_EOF has
\* been returned returns a token identical to it and leaves current and line
\* (and start) as they were.
C26_EndAbsorbing ==
    /\ [](\A i \in live : \A k \in 1..Len(tokens[i]) :
            tokens[i][k].type = "TOKEN_EOF" =>
               /\ tokens[i][k].buf = "source"
               /\ tokens[i][k].start = Len(source[i])
               /\ tokens[i][k].length = 0
               /\ tokens[i][k].line = scanner[i].line
               /\ scanner[i].current = Len(source[i]))
    /\ [][\A i \in live :
            (Called(i) /\ Len(tokens[i]) >= 1 /\ LastToken(i).type = "TOKEN_EOF") =>
               /\ Returned(i) = LastToken(i)
               /\ scanner'[i] = scanner[i]]_vars

\* After a source of two lines ended, a further call has returned TOKEN_EOF
\* once more.
C26_Witness ==
    \E i \in live :
       /\ Len(tokens[i]) >= 3
       /\ tokens[i][Len(tokens[i]) - 2].type # "TOKEN_EOF"
       /\ tokens[i][Len(tokens[i]) - 1].type = "TOKEN_EOF"
       /\ LastToken(i) = tokens[i][Len(tokens[i]) - 1]
       /\ LastToken(i).line >= 2
       /\ LastToken(i).start >= 3

\* ---- C27 ----
\* C27: in the tokens returned since the last initScanner, each token's line
\* is at least 1 and at least the line of the token before it.
C27_LinesNonDecreasing ==
    \A i \in live : \A k \in 1..Len(tokens[i]) :
       /\ tokens[i][k].line >= 1
       /\ k > 1 => tokens[i][k].line >= tokens[i][k - 1].line

\* A scan has returned a token of line 1 and then several of line 2, an error
\* token first among them.
C27_Witness ==
    \E i \in live :
       /\ Len(tokens[i]) >= 4
       /\ tokens[i][1].line = 1
       /\ tokens[i][2].line = 2
       /\ tokens[i][2].type = "TOKEN_ERROR"
       /\ tokens[i][3].line = 2
       /\ LastToken(i).line = 2

\* ---- C28 ----
\* The offsets p of src with a <= p, p + 1 < b that hold "//".
SlashPairs(src, a, b) ==
    {p \in a..(b - 2) : At(src, p) = Ord["/"] /\ At(src, p + 1) = Ord["/"]}

\* C28: a call whose lexeme starts at a '"' that has a closing '"' returns the
\* TOKEN_STRING up to that closing quote also when a "//" lies between the
\* two, and the text after the "//" is not skipped; a call that finds a "//"
\* after the white space starts its lexeme at or after the end of that line,
\* also when the comment holds a '"': no string literal or "Unterminated
\* string." token begins inside the comment.
C28_NoLeak ==
    [][\A i \in live :
         Called(i) =>
            LET src == source[i]
                d == scanner'[i].start
                q == FirstQuote(src, d + 1)
                p == BlankEnd(src, scanner[i].current)
                e == EndOfLine(src, p + 2)
                t == Returned(i)
            IN  /\ (At(src, d) = Ord["\""] /\ q < Len(src)
                       /\ SlashPairs(src, d + 1, q) # {}) =>
                      /\ t.type = "TOKEN_STRING"
                      /\ t.start = d
                      /\ t.length = q + 1 - d
                      /\ scanner'[i].current = q + 1
                /\ (p \in SlashPairs(src, p, Len(src))
                       /\ \E x \in Occurrences(src, Ord["\""]) : p + 2 <= x /\ x < e) =>
                      /\ d >= e
                      /\ t.buf = "source" => t.start >= e
                      /\ IsError(t, MSG_UNTERMINATED) => At(src, d) = Ord["\""]]_vars

\* A string literal holding "//" has been returned, and the comment after it,
\* which holds a '"', has been passed without a token.
C28_Witness ==
    \E i \in live :
       /\ Len(source[i]) = 7
       /\ source[i][7] = Ord["\""]
       /\ Len(tokens[i]) = 2
       /\ tokens[i][1].type = "TOKEN_STRING"
       /\ tokens[i][1].length = 4
       /\ SlashPairs(source[i], 1, 3) = {1}
       /\ tokens[i][2].type = "TOKEN_EOF"

\* ---- C29 ----
\* C29: a scanToken call on one Scanner leaves the bytes of every source
\* buffer, the pointers the scanners were bound with and the build as they
\* were; the tokens returned by earlier calls, on this Scanner and on every
\* other, are the same afterwards (kind, pointer, length, line; an error
\* token still points to its whole message); and the call changes the start,
\* current and line of no other Scanner.
C29_Frame ==
    [][\A i \in live :
         Called(i) =>
            /\ source' = source
            /\ argument' = argument
            /\ charSigned' = charSigned
            /\ live' = live
            /\ SubSeq(tokens'[i], 1, Len(tokens[i])) = tokens[i]
            /\ prev' = prev
            /\ \A j \in live \ {i} :
                  /\ tokens'[j] = tokens[j]
                  /\ scanner'[j] = scanner[j]
            /\ \A j \in live : \A k \in 1..Len(tokens'[j]) :
                  tokens'[j][k].type = "TOKEN_ERROR" =>
                     tokens'[j][k].length = Len(tokens'[j][k].buf)]_vars

\* Two Scanners: the first has returned three tokens, an error token among
\* them, while the second has returned one and still has text to scan.
C29_Witness ==
    /\ live = {1, 2}
    /\ Len(tokens[1]) >= 3
    /\ \E k \in 1..Len(tokens[1]) : tokens[1][k].type = "TOKEN_ERROR"
    /\ Len(tokens[2]) = 1
    /\ scanner[2].current < Len(source[2])

\* ---- C30 ----
\* The kinds with a fixed spelling, each with that spelling.
FixedSpelling ==
    {<<e[2], <<e[1]>>>> : e \in PunctuationKinds}
      \cup {<<"TOKEN_SLASH", <<Ord["/"]>>>>}
      \cup {<<e[2], <<e[1]>>>> : e \in OperatorKinds}
      \cup {<<e[3], <<e[1], Ord["="]>>>> : e \in OperatorKinds}
      \cup {<<e[2], Bytes(e[1])>> : e \in Keywords}

\* text is digits, or digits '.' digits.
IsNumberText(text) ==
    LET r == DigitRun(text, 0)
    IN  /\ r >= 1
        /\ \/ r = Len(text)
           \/ /\ At(text, r) = Ord["."]
              /\ DigitRun(text, r + 1) >= 1
              /\ r + 1 + DigitRun(text, r + 1) = Len(text)

\* text is digits 'n'.
IsBigIntText(text) ==
    /\ DigitRun(text, 0) >= 1
    /\ Len(text) = DigitRun(text, 0) + 1
    /\ text[Len(text)] = Ord["n"]

\* text is a '"', characters other than '"', and a '"'.
IsStringText(text) ==
    /\ Len(text) >= 2
    /\ text[1] = Ord["\""]
    /\ text[Len(text)] = Ord["\""]
    /\ \A b \in 2..(Len(text) - 1) : text[b] # Ord["\""]

\* C30: the lexeme of every token of a punctuation, operator or keyword kind
\* is the fixed spelling of that kind; a TOKEN_NUMBER lexeme is digits or
\* digits '.' digits; a TOKEN_BIGINT lexeme is digits 'n'; a TOKEN_STRING
\* lexeme is a '"', characters none of which is '"', and a '"'.
C30_KindLexeme ==
    \A i \in live : \A k \in 1..Len(tokens[i]) :
       LET t == tokens[i][k]
           text == Lexeme(source[i], t)
       IN  /\ \A e \in FixedSpelling :
                 e[1] = t.type => (t.buf = "source" /\ text = e[2])
           /\ t.type = "TOKEN_NUMBER" => (t.buf = "source" /\ IsNumberText(text))
           /\ t.type = "TOKEN_BIGINT" => (t.buf = "source" /\ IsBigIntText(text))
           /\ t.type = "TOKEN_STRING" => (t.buf = "source" /\ IsStringText(text))

\* The statement `var x = 1;` on a second line has been scanned: a keyword, an
\* identifier, an operator, a number and punctuation.
C30_Witness ==
    \E i \in live :
       /\ Len(tokens[i]) >= 5
       /\ tokens[i][1].type = "TOKEN_VAR"
       /\ tokens[i][2].type = "TOKEN_IDENTIFIER"
       /\ tokens[i][3].type = "TOKEN_EQUAL"
       /\ tokens[i][4].type = "TOKEN_NUMBER"
       /\ tokens[i][5].type = "TOKEN_SEMICOLON"

====
